---- MODULE Spec2Model ----
(***************************************************************************)
(* A model of just-jsx: the two JSX pragma functions createDomElement and  *)
(* createDomFragment, the child appender, the namespace corrector and the  *)
(* prop setter, running against an HTML document.  The DOM is a heap of    *)
(* node records; every DOM call the code makes is an operator on a world   *)
(* (the heap plus a log of the calls made so far).                         *)
(***************************************************************************)
EXTENDS Integers, Sequences, FiniteSets, TLC

VARIABLES heap, last

vars == <<heap, last>>

(***************************************************************************)
(* Bounds of the model.                                                    *)
(***************************************************************************)
MaxNodes == 6
MaxKids == 2
MaxCalls == 3
MaxSize == 4

(***************************************************************************)
(* Strings.  TLC has no character operations, so String.prototype          *)
(* .toLowerCase, the DOM's ASCII upper-casing of an HTML element's tagName *)
(* and split("_")[0] are tables over the names the model uses: a row is a   *)
(* name as written, its lower-case form and its upper-case form.  A name   *)
(* that is in no row has no letters to fold.                               *)
(***************************************************************************)
\* the SVG tag names in the casing SVG gives them
SvgNameTable ==
  {
    <<"animate", "animate", "ANIMATE">>,
    <<"animateMotion", "animatemotion", "ANIMATEMOTION">>,
    <<"animateTransform", "animatetransform", "ANIMATETRANSFORM">>,
    <<"audio_svg", "audio_svg", "AUDIO_SVG">>,
    <<"canvas_svg", "canvas_svg", "CANVAS_SVG">>,
    <<"clipPath", "clippath", "CLIPPATH">>,
    <<"defs", "defs", "DEFS">>,
    <<"desc", "desc", "DESC">>,
    <<"discard", "discard", "DISCARD">>,
    <<"ellipse", "ellipse", "ELLIPSE">>,
    <<"feBlend", "feblend", "FEBLEND">>,
    <<"feColorMatrix", "fecolormatrix", "FECOLORMATRIX">>,
    <<"feComponentTransfer", "fecomponenttransfer", "FECOMPONENTTRANSFER">>,
    <<"feComposite", "fecomposite", "FECOMPOSITE">>,
    <<"feConvolveMatrix", "feconvolvematrix", "FECONVOLVEMATRIX">>,
    <<"feDiffuseLighting", "fediffuselighting", "FEDIFFUSELIGHTING">>,
    <<"feDisplacementMap", "fedisplacementmap", "FEDISPLACEMENTMAP">>,
    <<"feDistantLight", "fedistantlight", "FEDISTANTLIGHT">>,
    <<"feDropShadow", "fedropshadow", "FEDROPSHADOW">>,
    <<"feFlood", "feflood", "FEFLOOD">>,
    <<"feFuncA", "fefunca", "FEFUNCA">>,
    <<"feFuncB", "fefuncb", "FEFUNCB">>,
    <<"feFuncG", "fefuncg", "FEFUNCG">>,
    <<"feFuncR", "fefuncr", "FEFUNCR">>,
    <<"feGaussianBlur", "fegaussianblur", "FEGAUSSIANBLUR">>,
    <<"feImage", "feimage", "FEIMAGE">>,
    <<"feMerge", "femerge", "FEMERGE">>,
    <<"feMergeNode", "femergenode", "FEMERGENODE">>,
    <<"feMorphology", "femorphology", "FEMORPHOLOGY">>,
    <<"feOffset", "feoffset", "FEOFFSET">>,
    <<"fePointLight", "fepointlight", "FEPOINTLIGHT">>,
    <<"feSpecularLighting", "fespecularlighting", "FESPECULARLIGHTING">>,
    <<"feSpotLight", "fespotlight", "FESPOTLIGHT">>,
    <<"feTile", "fetile", "FETILE">>,
    <<"feTurbulence", "feturbulence", "FETURBULENCE">>,
    <<"filter", "filter", "FILTER">>,
    <<"g", "g", "G">>,
    <<"iframe_svg", "iframe_svg", "IFRAME_SVG">>,
    <<"image_svg", "image_svg", "IMAGE_SVG">>,
    <<"line", "line", "LINE">>,
    <<"linearGradient", "lineargradient", "LINEARGRADIENT">>,
    <<"marker", "marker", "MARKER">>,
    <<"mask", "mask", "MASK">>,
    <<"metadata", "metadata", "METADATA">>,
    <<"mpath", "mpath", "MPATH">>,
    <<"path", "path", "PATH">>,
    <<"pattern", "pattern", "PATTERN">>,
    <<"polygon", "polygon", "POLYGON">>,
    <<"polyline", "polyline", "POLYLINE">>,
    <<"radialGradient", "radialgradient", "RADIALGRADIENT">>,
    <<"rect", "rect", "RECT">>,
    <<"script_svg", "script_svg", "SCRIPT_SVG">>,
    <<"set", "set", "SET">>,
    <<"stop", "stop", "STOP">>,
    <<"style_svg", "style_svg", "STYLE_SVG">>,
    <<"switch", "switch", "SWITCH">>,
    <<"symbol", "symbol", "SYMBOL">>,
    <<"text", "text", "TEXT">>,
    <<"textPath", "textpath", "TEXTPATH">>,
    <<"title", "title", "TITLE">>,
    <<"tspan", "tspan", "TSPAN">>,
    <<"unknown", "unknown", "UNKNOWN">>,
    <<"use", "use", "USE">>,
    <<"video_svg", "video_svg", "VIDEO_SVG">>,
    <<"view", "view", "VIEW">>,
    <<"script", "script", "SCRIPT">> }

NameTable ==
  { <<"div",           "div",           "DIV">>,
    <<"svg",           "svg",           "SVG">>,
    <<"circle",        "circle",        "CIRCLE">>,
    <<"foreignObject", "foreignobject", "FOREIGNOBJECT">>,
    <<"a_svg",         "a_svg",         "A_SVG">>,
    <<"a",             "a",             "A">>,
    <<"select",        "select",        "SELECT">>,
    <<"option",        "option",        "OPTION">>,
    <<"viewBox",       "viewbox",       "VIEWBOX">>,
    <<"id",            "id",            "ID">>,
    <<"value",         "value",         "VALUE">>,
    <<"Disabled",      "disabled",      "DISABLED">>,
    <<"onClick",       "onclick",       "ONCLICK">>,
    <<"onMouseOver",   "onmouseover",   "ONMOUSEOVER">> }
  \cup SvgNameTable

Rows(s) == { r \in NameTable : s \in {r[1], r[2], r[3]} }

\* the k-th form of a name that has the rows rs
Fold(rs, s, k) == IF rs = {} THEN s ELSE (CHOOSE r \in rs : TRUE)[k]

ToLowerCase(s) == Fold(Rows(s), s, 2)

ToUpperCase(s) == Fold(Rows(s), s, 3)

\* tag.split("_")[0], over the names with a separator that the model uses
SplitUnderscore(s) ==
  CASE s = "a_svg" -> "a"
    [] s = "audio_svg" -> "audio"
    [] s = "canvas_svg" -> "canvas"
    [] s = "iframe_svg" -> "iframe"
    [] s = "image_svg" -> "image"
    [] s = "script_svg" -> "script"
    [] s = "style_svg" -> "style"
    [] s = "video_svg" -> "video"
    [] s = "A_SVG" -> "A"
    [] s = "AUDIO_SVG" -> "AUDIO"
    [] s = "CANVAS_SVG" -> "CANVAS"
    [] s = "IFRAME_SVG" -> "IFRAME"
    [] s = "IMAGE_SVG" -> "IMAGE"
    [] s = "SCRIPT_SVG" -> "SCRIPT"
    [] s = "STYLE_SVG" -> "STYLE"
    [] s = "VIDEO_SVG" -> "VIDEO"
    [] OTHER -> s

SVG_NS == "http://www.w3.org/2000/svg"
HTML_NS == "http://www.w3.org/1999/xhtml"
\* namespaceURI and tagName of a node that is no element (a DocumentFragment)
Undefined == "undefined"

SVG_TAGS ==
  { "a_svg", "animate", "animatemotion", "animatetransform", "audio_svg",
    "canvas_svg", "circle", "clippath", "defs", "desc", "discard", "ellipse",
    "feblend", "fecolormatrix", "fecomponenttransfer", "fecomposite",
    "feconvolvematrix", "fediffuselighting", "fedisplacementmap",
    "fedistantlight", "fedropshadow", "feflood", "fefunca", "fefuncb",
    "fefuncg", "fefuncr", "fegaussianblur", "feimage", "femerge",
    "femergenode", "femorphology", "feoffset", "fepointlight",
    "fespecularlighting", "fespotlight", "fetile", "feturbulence", "filter",
    "foreignobject", "g", "iframe_svg", "image_svg", "line", "lineargradient",
    "marker", "mask", "metadata", "mpath", "path", "pattern", "polygon",
    "polyline", "radialgradient", "rect", "script_svg", "set", "stop",
    "style_svg", "svg", "switch", "symbol", "text", "textpath", "title",
    "tspan", "unknown", "use", "video_svg", "view" }

\* isSvgTag without the lower-casing
isSvgTag_CaseSensitive(tag) == tag \in SVG_TAGS

isSvgTag(tag) == ToLowerCase(tag) \in SVG_TAGS

(***************************************************************************)
(* JavaScript values: children values and prop values.  Every value is a   *)
(* record of the same shape, k naming its kind.                            *)
(***************************************************************************)
Val(k, s, n, items) == [k |-> k, s |-> s, n |-> n, items |-> items]

Null == Val("null", "", 0, <<>>)
Undef == Val("undefined", "", 0, <<>>)
True == Val("boolean", "true", 0, <<>>)
False == Val("boolean", "false", 0, <<>>)
Str(s) == Val("string", s, 0, <<>>)
Num(n) == Val("number", "", n, <<>>)
\* a number that is no integer: s is its string form, n tells zero from
\* non-zero (NaN is falsy like 0)
Frac(s) == Val("number", s, 1, <<>>)
NaN == Val("number", "NaN", 0, <<>>)
NodeVal(id) == Val("node", "", id, <<>>)
Arr(items) == Val("array", "", 0, items)
\* a function, known by its name, and an object with its entries in insertion
\* order
Fn(name) == Val("function", name, 0, <<>>)
Obj(entries) == Val("object", "", 0, entries)
\* the object createRef() returns, known by a name; what its current field
\* holds is kept in the world
Holder(name) == Val("object", name, 0, <<>>)
Holders == {"h"}

\* JavaScript truthiness, as used by !props, props?.children || children, if (ref)
Truthy(v) ==
  CASE v.k \in {"null", "undefined"} -> FALSE
    [] v.k = "boolean" -> v.s = "true"
    [] v.k = "string" -> v.s # ""
    [] v.k = "number" -> v.n # 0
    [] OTHER -> TRUE

\* IsInvisible as a test for falsy values
IsInvisible_Falsy(v) == ~Truthy(v)

\* child == null || typeof child === "boolean"
IsInvisible(v) == v.k \in {"null", "undefined", "boolean"}

\* String(value)
StringOf(v) ==
  CASE v.k = "string" -> v.s
    [] v.k = "number" -> (IF v.s # "" THEN v.s ELSE ToString(v.n))
    [] v.k = "boolean" -> v.s
    [] v.k = "null" -> "null"
    [] v.k = "undefined" -> "undefined"
    [] OTHER -> "[object]"

\* A props argument: null, or an object with its entries in insertion order.
NoProps == [isNull |-> TRUE, entries |-> <<>>]
Props(entries) == [isNull |-> FALSE, entries |-> entries]
Entry(name, val) == [name |-> name, val |-> val]

HasKey(props, name) ==
  \E i \in 1..Len(props.entries) : props.entries[i].name = name

\* props?.name
Get(props, name) ==
  IF HasKey(props, name)
    THEN props.entries[CHOOSE i \in 1..Len(props.entries) :
                              props.entries[i].name = name].val
    ELSE Undef

(***************************************************************************)
(* The DOM.  A node's id is its index in the heap.                         *)
(***************************************************************************)
ElementNode(ns, localName) ==
  [type |-> "element", ns |-> ns, localName |-> localName, attrs |-> <<>>,
   kids |-> <<>>, parent |-> 0, data |-> "", props |-> <<>>, listeners |-> <<>>]

TextNode(data) ==
  [type |-> "text", ns |-> Undefined, localName |-> "", attrs |-> <<>>,
   kids |-> <<>>, parent |-> 0, data |-> data, props |-> <<>>, listeners |-> <<>>]

FragmentNode ==
  [type |-> "fragment", ns |-> Undefined, localName |-> "", attrs |-> <<>>,
   kids |-> <<>>, parent |-> 0, data |-> "", props |-> <<>>, listeners |-> <<>>]

\* One entry of the log of calls: e names the call, a and b are node ids, s is a
\* name, and h holds what a claim needs of the call: for a correction the heap
\* it started from and the heap it left, for a component call the props.
Ev(e, a, b, s, h) == [e |-> e, a |-> a, b |-> b, s |-> s, h |-> h]

\* cur is the current field of every holder: a node id, 0 for null
World(h) == [h |-> h, log |-> <<>>, cur |-> [r \in Holders |-> 0]]

Logged(w, ev) == [w EXCEPT !.log = Append(@, ev)]

Ret(w, node) == [w |-> w, node |-> node]

\* F(x): a value that is worked out once, where it is given, and that F has
\* under a name, as a const declaration names it for the statements after it
With(x, F(_)) == F(x)

\* element.tagName: the qualified name, upper-cased for an HTML element of an
\* HTML document
tagName(h, id) ==
  CASE h[id].type # "element" -> Undefined
    [] h[id].ns = HTML_NS -> ToUpperCase(h[id].localName)
    [] OTHER -> h[id].localName

namespaceURI(h, id) == h[id].ns

\* document.createElement(tag) of an HTML document
documentCreateElement(w, tag) ==
  Ret([w EXCEPT !.h = Append(@, ElementNode(HTML_NS, ToLowerCase(tag)))],
      Len(w.h) + 1)

\* document.createElementNS(ns, tag)
documentCreateElementNS(w, ns, tag) ==
  Ret([w EXCEPT !.h = Append(@, ElementNode(ns, tag))], Len(w.h) + 1)

\* document.createTextNode(data)
documentCreateTextNode(w, data) ==
  Ret([w EXCEPT !.h = Append(@, TextNode(data))], Len(w.h) + 1)

Without(seq, x) == SelectSeq(seq, LAMBDA y : y # x)

\* the DOM's remove: take a node out of its parent's child list
Detach(h, id) ==
  IF h[id].parent = 0 THEN h
  ELSE [h EXCEPT ![h[id].parent].kids = Without(@, id), ![id].parent = 0]

\* InsertOne that puts the node before the first child
InsertOne_First(h, parent, id) ==
  LET h1 == Detach(h, id)
  IN [h1 EXCEPT ![parent].kids = <<id>> \o @, ![id].parent = parent]

InsertOne(h, parent, id) ==
  LET h1 == Detach(h, id)
  IN [h1 EXCEPT ![parent].kids = Append(@, id), ![id].parent = parent]

RECURSIVE InsertAll(_, _, _)
InsertAll(h, parent, ids) ==
  IF ids = <<>> THEN h
  ELSE InsertAll(InsertOne(h, parent, Head(ids)), parent, Tail(ids))

\* parent.appendChild(child): a node moves from where it was; a
\* DocumentFragment gives up its children, in order, and stays empty
appendChild(w, parent, child) ==
  LET h2 == IF w.h[child].type = "fragment"
              THEN InsertAll(w.h, parent, w.h[child].kids)
              ELSE InsertOne(w.h, parent, child)
  IN Logged([w EXCEPT !.h = h2], Ev("appendChild", parent, child, "", <<>>))

AttrIndex(attrs, name) ==
  IF \E i \in 1..Len(attrs) : attrs[i].name = name
    THEN CHOOSE i \in 1..Len(attrs) :
           attrs[i].name = name /\ \A j \in 1..(i - 1) : attrs[j].name # name
    ELSE 0

\* element.setAttribute(name, value): an HTML element of an HTML document
\* lower-cases the name; an attribute of that name keeps its place
setAttribute(w, el, name, value) ==
  With(IF w.h[el].ns = HTML_NS THEN ToLowerCase(name) ELSE name,
       LAMBDA qn :
         LET i == AttrIndex(w.h[el].attrs, qn)
             attrs2 == IF i = 0
                         THEN Append(w.h[el].attrs,
                                     [name |-> qn, value |-> value])
                         ELSE [w.h[el].attrs EXCEPT ![i].value = value]
         IN Logged([w EXCEPT !.h[el].attrs = attrs2],
                   Ev("setAttribute", el, 0, qn, <<>>)))

\* element.removeAttribute(name)
removeAttribute(w, el, name) ==
  With(IF w.h[el].ns = HTML_NS THEN ToLowerCase(name) ELSE name,
       LAMBDA qn :
         Logged([w EXCEPT !.h[el].attrs =
                    SelectSeq(@, LAMBDA a : a.name # qn)],
                Ev("removeAttribute", el, 0, qn, <<>>)))

RECURSIVE DetachAll(_, _)
DetachAll(h, ids) ==
  IF ids = <<>> THEN h ELSE DetachAll(Detach(h, Head(ids)), Tail(ids))

\* element.textContent = s: every child goes, and a text node comes unless s
\* is the empty string
setTextContent(w, el, s) ==
  LET w1 == [w EXCEPT !.h = DetachAll(@, w.h[el].kids)]
  IN IF s = "" THEN w1
     ELSE LET t == documentCreateTextNode(w1, s)
          IN [t.w EXCEPT !.h = InsertOne(@, el, t.node)]

\* node.cloneNode(true) of a node that is no element
cloneNode(w, id) == documentCreateTextNode(w, w.h[id].data)

(***************************************************************************)
(* The namespace corrector.                                                *)
(***************************************************************************)
\* ExpectedNS as a corrector that takes every child of a foreignObject to be
\* HTML would compute it
ExpectedNS_HtmlUnderForeignObject(parentTag, parentNS, childTagLower) ==
  CASE parentTag = "foreignObject" -> HTML_NS
    [] parentTag # "foreignObject" /\ parentNS = SVG_NS -> SVG_NS
    [] parentTag # "foreignObject" /\ parentNS = HTML_NS ->
         (IF isSvgTag(childTagLower) THEN SVG_NS ELSE HTML_NS)
    [] OTHER -> Undefined

\* ExpectedNS taking a parent without a namespace for an HTML parent
ExpectedNS_HtmlByDefault(parentTag, parentNS, childTagLower) ==
  CASE parentTag = "foreignObject" ->
         (IF isSvgTag(childTagLower) THEN SVG_NS ELSE HTML_NS)
    [] parentTag # "foreignObject" /\ parentNS = SVG_NS -> SVG_NS
    [] OTHER -> (IF isSvgTag(childTagLower) THEN SVG_NS ELSE HTML_NS)

\* the expected namespace of a child under a parent; Undefined stands for
\* the null of "no expectation"
ExpectedNS(parentTag, parentNS, childTagLower) ==
  CASE parentTag = "foreignObject" ->
         (IF isSvgTag(childTagLower) THEN SVG_NS ELSE HTML_NS)
    [] parentTag # "foreignObject" /\ parentNS = SVG_NS -> SVG_NS
    [] parentTag # "foreignObject" /\ parentNS = HTML_NS ->
         (IF isSvgTag(childTagLower) THEN SVG_NS ELSE HTML_NS)
    [] OTHER -> Undefined

\* KeepsChild without the comparison of the namespaces
KeepsChild_OnlyWithoutExpectation(expectedNS, childNS) ==
  expectedNS = Undefined

\* if (!expectedNS || childNS === expectedNS) return child
KeepsChild(expectedNS, childNS) ==
  expectedNS = Undefined \/ childNS = expectedNS

TagForCreation(expectedNS, childTagLower, childTag) ==
  IF expectedNS = HTML_NS THEN childTagLower ELSE childTag

\* for (let i = 0; i < attrs.length; i++) corrected.setAttribute(...), from
\* the i-th attribute on (i counts from 1 here)
RECURSIVE CopyAttributes(_, _, _, _)
CopyAttributes(w, child, corrected, i) ==
  IF i > Len(w.h[child].attrs) THEN w
  ELSE CopyAttributes(
         setAttribute(w, corrected, w.h[child].attrs[i].name,
                      w.h[child].attrs[i].value),
         child, corrected, i + 1)

RECURSIVE fixNamespaceIfNeeded(_, _, _)
RECURSIVE CopyChildNodes(_, _, _, _)

\* for (let i = 0; i < childNodes.length; i++) ...: childNodes is the live
\* list of the original, read again at every turn of the loop
CopyChildNodes(w, child, corrected, i) ==
  IF i > Len(w.h[child].kids) THEN w
  ELSE LET grandchild == w.h[child].kids[i]
       IN With(IF w.h[grandchild].type = "element"
                 THEN fixNamespaceIfNeeded(w, corrected, grandchild)
                 ELSE cloneNode(w, grandchild),
               LAMBDA made :
                 CopyChildNodes(appendChild(made.w, corrected, made.node),
                                child, corrected, i + 1))

\* a corrector that returns every child as it is
fixNamespaceIfNeeded_Never(w, parent, child) == Ret(w, child)

\* the replacement of a child: an element of the expected namespace with the
\* attributes and the child nodes of the child
Corrected(w, child, expectedNS, tagForCreation) ==
  With(documentCreateElementNS(w, expectedNS, tagForCreation),
       LAMBDA c :
         With(CopyChildNodes(CopyAttributes(c.w, child, c.node, 1),
                             child, c.node, 1),
              LAMBDA w2 :
                Ret(Logged(w2, Ev("corrected", child, c.node, "",
                                  <<w.h, w2.h>>)),
                    c.node)))

fixNamespaceIfNeeded(w, parent, child) ==
  With(tagName(w.h, child),
       LAMBDA childTag :
         With(ToLowerCase(childTag),
              LAMBDA childTagLower :
                With(ExpectedNS(tagName(w.h, parent),
                                namespaceURI(w.h, parent), childTagLower),
                     LAMBDA expectedNS :
                       IF KeepsChild(expectedNS, namespaceURI(w.h, child))
                         THEN Ret(w, child)
                         ELSE Corrected(w, child, expectedNS,
                                        TagForCreation(expectedNS,
                                                       childTagLower,
                                                       childTag)))))

(***************************************************************************)
(* The child appender.                                                     *)
(***************************************************************************)
RECURSIVE appendDomChild(_, _, _)
RECURSIVE AppendEach(_, _, _, _)
RECURSIVE AppendEach_Backwards(_, _, _, _)

\* AppendEach walking the array from its end
AppendEach_Backwards(w, parent, items, i) ==
  IF i > Len(items) THEN w
  ELSE AppendEach_Backwards(
         appendDomChild(w, parent, items[Len(items) + 1 - i]),
         parent, items, i + 1)

\* for (let i = 0; i < child.length; i++) appendDomChild(parent, child[i])
AppendEach(w, parent, items, i) ==
  IF i > Len(items) THEN w
  ELSE AppendEach(appendDomChild(w, parent, items[i]), parent, items, i + 1)

appendDomChild(w, parent, child) ==
  CASE IsInvisible(child) -> w
    [] child.k = "array" -> AppendEach(w, parent, child.items, 1)
    [] child.k \in {"string", "number"} ->
         With(documentCreateTextNode(w, StringOf(child)),
              LAMBDA t : appendChild(t.w, parent, t.node))
    [] child.k = "node" /\ w.h[child.n].type = "element" ->
         With(fixNamespaceIfNeeded(w, parent, child.n),
              LAMBDA f : appendChild(f.w, parent, f.node))
    [] OTHER -> appendChild(w, parent, child.n)

(***************************************************************************)
(* The prop setter.                                                        *)
(***************************************************************************)
\* PROPERTY_NAMES without the media properties
PROPERTY_NAMES_WithoutMedia ==
  { "value", "checked", "selected", "indeterminate", "innerHTML",
    "textContent", "innerText" }

PROPERTY_NAMES ==
  { "value", "checked", "selected", "indeterminate", "muted", "volume",
    "currentTime", "playbackRate", "innerHTML", "textContent", "innerText" }

\* BOOLEAN_ATTRS without hidden
BOOLEAN_ATTRS_WithoutHidden ==
  { "disabled", "readonly", "required", "autofocus", "autoplay", "controls",
    "loop", "multiple", "open", "reversed", "allowfullscreen",
    "default", "ismap", "novalidate", "formnovalidate", "defer", "async" }

BOOLEAN_ATTRS ==
  { "disabled", "readonly", "required", "autofocus", "autoplay", "controls",
    "loop", "multiple", "open", "hidden", "reversed", "allowfullscreen",
    "default", "ismap", "novalidate", "formnovalidate", "defer", "async" }

\* the names Object.prototype gives every object literal, PROPERTY_NAMES
\* included
ObjectPrototypeNames ==
  { "constructor", "toString", "valueOf", "hasOwnProperty", "isPrototypeOf",
    "propertyIsEnumerable", "toLocaleString", "__proto__" }

\* PROPERTY_NAMES[name]: the name itself for a key of the literal, what the
\* prototype holds under an inherited name (as the string it makes as a
\* property key), Undefined for any other name
PropertyKey(name) ==
  CASE name \in PROPERTY_NAMES -> name
    [] name \notin PROPERTY_NAMES /\ name \in ObjectPrototypeNames ->
         "[inherited " \o name \o "]"
    [] OTHER -> Undefined

\* IsReserved that knows ref only
IsReserved_RefOnly(name) == name = "ref"

\* name === "key" || name === "ref"
IsReserved(name) == name = "key" \/ name = "ref"

\* name.startsWith("on"), over the names the model uses
StartsWithOn(name) == name \in {"onClick", "onMouseOver", "onclick", "on"}

\* EventType without the lower-casing: name.slice(2)
EventType_KeepsCase(name) ==
  CASE name = "onClick" -> "Click"
    [] name = "onclick" -> "click"
    [] name = "onMouseOver" -> "MouseOver"
    [] OTHER -> ""

\* name.toLowerCase().slice(2)
EventType(name) ==
  CASE name \in {"onClick", "onclick"} -> "click"
    [] name = "onMouseOver" -> "mouseover"
    [] OTHER -> ""

RECURSIVE StyleParts_NoUnit(_, _)
RECURSIVE StyleParts(_, _)

\* StyleParts giving a number no px
StyleParts_NoUnit(entries, i) ==
  IF i > Len(entries) THEN ""
  ELSE LET e == entries[i]
           part == e.name \o ": " \o StringOf(e.val)
       IN IF i = Len(entries) THEN part
          ELSE part \o "; " \o StyleParts_NoUnit(entries, i + 1)

\* parts.join("; ") of the parts from the i-th entry on
StyleParts(entries, i) ==
  IF i > Len(entries) THEN ""
  ELSE LET e == entries[i]
           part == e.name \o ": " \o
                   (IF e.val.k = "number" THEN StringOf(e.val) \o "px"
                    ELSE StringOf(e.val))
       IN IF i = Len(entries) THEN part
          ELSE part \o "; " \o StyleParts(entries, i + 1)

\* for (const key in style): the entries of an object in insertion order, the
\* indices of an array
StyleEntries(style) ==
  IF style.k = "array"
    THEN [i \in 1..Len(style.items) |-> Entry(ToString(i - 1), style.items[i])]
    ELSE style.items

styleObjectToString(style) == StyleParts(StyleEntries(style), 1)

\* the value an option element submits: its value attribute, else its text
OptionValue(h, id) ==
  IF AttrIndex(h[id].attrs, "value") # 0
    THEN h[id].attrs[AttrIndex(h[id].attrs, "value")].value
    ELSE IF h[id].kids # <<>> /\ h[h[id].kids[1]].type = "text"
           THEN h[h[id].kids[1]].data
           ELSE ""

IsHtml(h, id, localName) ==
  h[id].type = "element" /\ h[id].ns = HTML_NS /\ h[id].localName = localName

PutProp(props, name, val) ==
  IF \E i \in 1..Len(props) : props[i].name = name
    THEN [i \in 1..Len(props) |->
            IF props[i].name = name THEN Entry(name, val) ELSE props[i]]
    ELSE Append(props, Entry(name, val))

\* element[name] = value, the assignment to a live property.  The node's props
\* hold what reading the property back gives: a select takes a value only if
\* one of its option children carries it, an option reflects its value in the
\* attribute, and textContent replaces the children, as do innerHTML (of a
\* string without markup) and innerText (of one without line breaks).
AssignProperty(w, el, name, value) ==
  LET w0 == Logged(w, Ev("property", el, 0, name, value))
  IN CASE name = "textContent" ->
            setTextContent(w0, el, IF value.k \in {"null", "undefined"}
                                     THEN "" ELSE StringOf(value))
       [] name \in {"innerHTML", "innerText"} ->
            setTextContent(w0, el, IF value.k = "null"
                                     THEN "" ELSE StringOf(value))
       [] name = "value" /\ IsHtml(w.h, el, "select") ->
            (LET hit == \E i \in 1..Len(w.h[el].kids) :
                          /\ IsHtml(w.h, w.h[el].kids[i], "option")
                          /\ OptionValue(w.h, w.h[el].kids[i]) = StringOf(value)
             IN [w0 EXCEPT !.h[el].props =
                   PutProp(@, name, IF hit THEN Str(StringOf(value)) ELSE Str(""))])
       [] name = "value" /\ IsHtml(w.h, el, "option") ->
            [w0 EXCEPT !.h = setAttribute(w0, el, "value", StringOf(value)).h]
       [] OTHER -> [w0 EXCEPT !.h[el].props = PutProp(@, name, value)]

\* element.addEventListener(type, listener): the same listener for the same
\* type is registered once
addEventListener(w, el, type, fn) ==
  LET l == [type |-> type, fn |-> fn]
      w0 == Logged(w, Ev("addEventListener", el, 0, type, <<>>))
  IN IF \E i \in 1..Len(w.h[el].listeners) : w.h[el].listeners[i] = l
       THEN w0
       ELSE [w0 EXCEPT !.h[el].listeners = Append(@, l)]

setProp(w, element, name, value) ==
  LET w0 == Logged(w, Ev("setProp", element, 0, name, <<>>))
  IN CASE IsReserved(name) -> w0
       [] OTHER ->
          IF StartsWithOn(name) /\ value.k = "function"
            THEN addEventListener(w0, element, EventType(name), value.s)
          ELSE IF name = "style" /\ value.k \in {"object", "array"}
            THEN setAttribute(w0, element, "style", styleObjectToString(value))
          ELSE IF name \in BOOLEAN_ATTRS
            THEN (IF value = False \/ value.k \in {"null", "undefined"}
                    THEN removeAttribute(w0, element, name)
                    ELSE setAttribute(w0, element, name, ""))
          ELSE IF PropertyKey(name) # Undefined
            THEN AssignProperty(w0, element, PropertyKey(name), value)
          ELSE IF value.k \notin {"null", "undefined"}
            THEN setAttribute(w0, element, name, StringOf(value))
          ELSE w0

\* for (const name in props) setProp(element, name, props[name])
RECURSIVE SetProps(_, _, _, _)
SetProps(w, element, entries, i) ==
  IF i > Len(entries) THEN w
  ELSE SetProps(setProp(w, element, entries[i].name, entries[i].val),
                element, entries, i + 1)

(***************************************************************************)
(* The element factory and the fragment factory.                           *)
(***************************************************************************)
\* MergedProps letting a children key of props stand
MergedProps_CallerWins(props, children) ==
  IF HasKey(props, "children") THEN props.entries
  ELSE Append(props.entries, Entry("children", Arr(children)))

\* { ...(props || {}), children }: children takes the place of a children key
\* of props, or comes last
MergedProps(props, children) ==
  IF HasKey(props, "children")
    THEN [i \in 1..Len(props.entries) |->
            IF props.entries[i].name = "children"
              THEN Entry("children", Arr(children)) ELSE props.entries[i]]
    ELSE Append(props.entries, Entry("children", Arr(children)))

\* what the components the model knows return for their props: Children its
\* props.children as they are, Title its props.title, any other null
Component(name, merged) ==
  CASE name = "Children" -> Get(Props(merged), "children")
    [] name = "Title" -> Get(Props(merged), "title")
    [] OTHER -> Null

\* tag(props)
InvokeComponent(w, tag, merged) ==
  Ret(Logged(w, Ev("component", 0, 0, tag.s, merged)),
      Component(tag.s, merged))

\* if (!props && children.length === 1 && typeof children[0] === "string")
TakesTextFastPath(props, children) ==
  props.isNull /\ Len(children) = 1 /\ children[1].k = "string"

\* if (!props && children.length === 0)
TakesEmptyFastPath(props, children) ==
  props.isNull /\ Len(children) = 0

TextFastPath(w, tag, children) ==
  With(documentCreateElement(w, tag),
       LAMBDA c :
         Ret(setTextContent(c.w, c.node, children[1].s), NodeVal(c.node)))

EmptyFastPath(w, tag) ==
  With(documentCreateElement(w, tag), LAMBDA c : Ret(c.w, NodeVal(c.node)))

\* for (let i = 0; i < children.length; i++) appendDomChild(element, children[i])
RECURSIVE AppendChildren(_, _, _, _)
AppendChildren(w, element, children, i) ==
  IF i > Len(children) THEN w
  ELSE AppendChildren(
         Logged(appendDomChild(w, element, children[i]),
                Ev("child", element, i, "", <<>>)),
         element, children, i + 1)

\* typeof ref === "function" ? ref(element) : ref.current = element
ResolveRef(w, element, ref) ==
  LET w0 == Logged(w, Ev("ref", element, 0, ref.k, ref))
  IN IF ref.k = "function" \/ ref.s \notin Holders THEN w0
     ELSE [w0 EXCEPT !.cur[ref.s] = element]

\* ApplyProps resolving the ref before it sets the props
ApplyProps_RefFirst(w, element, props) ==
  IF props.isNull THEN w
  ELSE LET ref == Get(props, "ref")
       IN SetProps(IF Truthy(ref) THEN ResolveRef(w, element, ref) ELSE w,
                   element, props.entries, 1)

\* if (props) { const ref = props.ref; for ... setProp ...; if (ref) ... }
ApplyProps(w, element, props) ==
  IF props.isNull THEN w
  ELSE LET ref == Get(props, "ref")
       IN With(SetProps(w, element, props.entries, 1),
               LAMBDA w1 :
                 IF Truthy(ref) THEN ResolveRef(w1, element, ref) ELSE w1)

\* GeneralPath applying the props before it appends the children
GeneralPath_PropsFirst(w, tag, props, children) ==
  With(IF isSvgTag(tag)
         THEN documentCreateElementNS(w, SVG_NS, SplitUnderscore(tag))
         ELSE documentCreateElement(w, tag),
       LAMBDA c :
         Ret(AppendChildren(ApplyProps(c.w, c.node, props),
                            c.node, children, 1),
             NodeVal(c.node)))

GeneralPath(w, tag, props, children) ==
  With(IF isSvgTag(tag)
         THEN documentCreateElementNS(w, SVG_NS, SplitUnderscore(tag))
         ELSE documentCreateElement(w, tag),
       LAMBDA c :
         Ret(ApplyProps(AppendChildren(c.w, c.node, children, 1),
                        c.node, props),
             NodeVal(c.node)))

\* which path a call takes
PathOf(tag, props, children) ==
  CASE tag.k = "function" -> "component"
    [] tag.k # "function" /\ TakesTextFastPath(props, children) -> "text"
    [] tag.k # "function" /\ ~TakesTextFastPath(props, children)
         /\ TakesEmptyFastPath(props, children) -> "empty"
    [] OTHER -> "general"

createDomElement(w, tag, props, children) ==
  LET path == PathOf(tag, props, children)
  IN CASE path = "component" ->
            InvokeComponent(w, tag, MergedProps(props, children))
       [] path = "text" -> TextFastPath(w, tag.s, children)
       [] path = "empty" -> EmptyFastPath(w, tag.s)
       [] OTHER -> GeneralPath(w, tag.s, props, children)

createDomFragment(w, props, children) ==
  LET w0 == [w EXCEPT !.h = Append(@, FragmentNode)]
      fragment == Len(w.h) + 1
      viaProps == ~props.isNull /\ Truthy(Get(props, "children"))
      actualChildren == IF viaProps THEN Get(props, "children")
                        ELSE Arr(children)
      childArray == IF actualChildren.k = "array" THEN actualChildren.items
                    ELSE <<actualChildren>>
  IN Ret(AppendEach(w0, fragment, childArray, 1), NodeVal(fragment))

(***************************************************************************)
(* The state machine: a program that calls the two factories, passing      *)
(* primitives and the nodes it already holds as children, and that builds  *)
(* elements out of band with the document's own constructors.              *)
(***************************************************************************)
\* last is the latest call: its number, its arguments, its result, the heap it
\* started from and the log of what it did
NoCall ==
  [n |-> 0, op |-> "none", tag |-> Null, props |-> NoProps, children |-> <<>>,
   result |-> Null, pre |-> <<>>, log |-> <<>>, cur |-> World(<<>>).cur]

Call(op, tag, props, children, r) ==
  [n |-> last.n + 1, op |-> op, tag |-> tag, props |-> props,
   children |-> children, result |-> r.node, pre |-> heap, log |-> r.w.log,
   cur |-> r.w.cur]

\* the call has returned r: the heap is the one it left, and last is the call
Returned(op, tag, props, children, r) ==
  /\ heap' = r.w.h
  /\ last' = Call(op, tag, props, children, r)

\* a call is made while the program has calls and nodes left
Fits(r) == last.n < MaxCalls /\ Len(r.w.h) <= MaxNodes

\* a call that fits has returned r
Made(op, tag, props, children, r) ==
  Fits(r) /\ Returned(op, tag, props, children, r)

SeqsUpTo(S, n) == UNION { [1..k -> S] : k \in 0..n }

Tags == {"div", "svg", "foreignObject", "a_svg"}

PropsBags == { NoProps, Props(<<Entry("viewBox", Str("v"))>>) }

\* the nodes a program can hold and pass on: elements and fragments
Held(h) == { i \in 1..Len(h) : h[i].type \in {"element", "fragment"} }

ChildValues(h) == {Str("a")} \cup { NodeVal(i) : i \in Held(h) }

Init == heap = <<>> /\ last = NoCall

CreateElement ==
  \E tag \in Tags, props \in PropsBags,
     children \in SeqsUpTo(ChildValues(heap), MaxKids) :
    Made("element", Str(tag), props, children,
         createDomElement(World(heap), Str(tag), props, children))

CreateFragment ==
  \E children \in SeqsUpTo(ChildValues(heap), MaxKids) :
    Made("fragment", Null, NoProps, children,
         createDomFragment(World(heap), NoProps, children))

\* document.createElementNS("http://www.w3.org/2000/svg", "div") called by the
\* program itself: an element built in the wrong namespace
ManualElement ==
  LET r == documentCreateElementNS(World(heap), SVG_NS, "div")
  IN /\ Fits(r)
     /\ heap' = r.w.h
     /\ last' = Call("manual", Str("div"), NoProps, <<>>,
                     Ret(r.w, NodeVal(r.node)))

Next == CreateElement \/ CreateFragment \/ ManualElement

Spec == Init /\ [][Next]_vars

(***************************************************************************)
(* What the claims speak of.                                               *)
(***************************************************************************)
IsElement(h, id) == h[id].type = "element"

RECURSIVE Descendants(_, _)
Descendants(h, id) ==
  LET ks == { h[id].kids[i] : i \in 1..Len(h[id].kids) }
  IN ks \cup UNION { Descendants(h, k) : k \in ks }

\* the namespace the spec gives an element child in the context of its parent
ContextNS(h, parent, child) ==
  IF tagName(h, parent) = "foreignObject" \/ namespaceURI(h, parent) = HTML_NS
    THEN (IF ToLowerCase(tagName(h, child)) \in SVG_TAGS
            THEN SVG_NS ELSE HTML_NS)
    ELSE SVG_NS

LogEvents(e) == { i \in 1..Len(last.log) : last.log[i].e = e }

FactoryCall == last.op \in {"element", "fragment"}

\* C4 (as claimed): after any composition of factory calls every element of
\* the returned tree that has an element parent has the namespace of its
\* context: under a foreignObject or an HTML parent SVG for an SVG tag and HTML
\* otherwise, under any other SVG parent SVG.
C4_NamespaceInvariant ==
  FactoryCall /\ last.result.k = "node" =>
    \A e \in Descendants(heap, last.result.n) :
      IsElement(heap, e) /\ IsElement(heap, heap[e].parent) =>
        namespaceURI(heap, e) = ContextNS(heap, heap[e].parent, e)

\* C5 (as claimed): an element made by the element factory for the tag svg is
\* in the SVG namespace, and so is every element below it that is not beneath
\* a foreignObject, whatever the props and children.
RECURSIVE BeneathForeignObject(_, _, _)
BeneathForeignObject(h, id, root) ==
  IF id = root \/ h[id].parent = 0 THEN FALSE
  ELSE tagName(h, h[id].parent) = "foreignObject"
       \/ BeneathForeignObject(h, h[id].parent, root)

C5_SvgSubtreeIsSvg ==
  last.op = "element" /\ last.tag = Str("svg") =>
    /\ namespaceURI(heap, last.result.n) = SVG_NS
    /\ \A e \in Descendants(heap, last.result.n) :
         IsElement(heap, e) /\ ~BeneathForeignObject(heap, e, last.result.n)
           => namespaceURI(heap, e) = SVG_NS

\* the namespaces down the only-child chain that starts at a node
RECURSIVE ChainNamespaces(_, _)
ChainNamespaces(h, id) ==
  <<namespaceURI(h, id)>> \o
    (IF h[id].kids = <<>> THEN <<>> ELSE ChainNamespaces(h, h[id].kids[1]))

\* <svg><foreignObject><div><svg><circle/></svg></div></foreignObject></svg>
NestedSvgExample ==
  LET circle == createDomElement(World(<<>>), Str("circle"), NoProps, <<>>)
      inner == createDomElement(circle.w, Str("svg"), NoProps, <<circle.node>>)
      div == createDomElement(inner.w, Str("div"), NoProps, <<inner.node>>)
      fo == createDomElement(div.w, Str("foreignObject"), NoProps, <<div.node>>)
      outer == createDomElement(fo.w, Str("svg"), NoProps, <<fo.node>>)
  IN ChainNamespaces(outer.w.h, outer.node.n)

\* C6: whenever an element is appended to a parent whose tag is
\* foreignObject, the appended element is in the SVG namespace if its
\* lower-cased tag is an SVG tag and in the HTML namespace otherwise; and
\* svg > foreignObject > div > svg > circle comes out SVG, SVG, HTML, SVG, SVG.
C6_ForeignObjectChildren ==
  /\ \A i \in LogEvents("appendChild") :
       LET ev == last.log[i]
       IN tagName(heap, ev.a) = "foreignObject" /\ IsElement(heap, ev.b) =>
            namespaceURI(heap, ev.b) =
              (IF ToLowerCase(tagName(heap, ev.b)) \in SVG_TAGS
                 THEN SVG_NS ELSE HTML_NS)
  /\ NestedSvgExample = <<SVG_NS, SVG_NS, HTML_NS, SVG_NS, SVG_NS>>

\* a foreignObject has been given a child that had to be replaced, and one
\* that is an SVG tag
C6_Witness ==
  /\ \E i \in LogEvents("appendChild"), j \in LogEvents("corrected") :
       /\ tagName(heap, last.log[i].a) = "foreignObject"
       /\ last.log[i].b = last.log[j].b
       /\ namespaceURI(heap, last.log[i].b) = HTML_NS
  /\ \E i \in LogEvents("appendChild") :
       /\ tagName(heap, last.log[i].a) = "foreignObject"
       /\ IsElement(heap, last.log[i].b)
       /\ namespaceURI(heap, last.log[i].b) = SVG_NS

\* C7 (as claimed): a replacement made by the corrector carries the attributes
\* of the original, the same names and values in the same order.
C7_AttributesCopied ==
  \A i \in LogEvents("corrected") :
    LET ev == last.log[i]
    IN ev.h[2][ev.b].attrs = ev.h[1][ev.a].attrs

\* C8 (as claimed): a replacement has as many child nodes as the original had,
\* in the same order: for an element child an element of the same tag, for any
\* other child a clone of it.
SameChild(pre, post, before, after) ==
  IF IsElement(pre, before)
    THEN /\ IsElement(post, after)
         /\ ToLowerCase(tagName(post, after)) = ToLowerCase(tagName(pre, before))
    ELSE /\ after # before
         /\ post[after].type = pre[before].type
         /\ post[after].data = pre[before].data

C8_EveryChildWalked ==
  \A i \in LogEvents("corrected") :
    LET ev == last.log[i]
        before == ev.h[1][ev.a].kids
        after == ev.h[2][ev.b].kids
    IN /\ Len(after) = Len(before)
       /\ \A k \in 1..Len(before) :
            k <= Len(after) => SameChild(ev.h[1], ev.h[2], before[k], after[k])

\* C9: for every parent and every element child, correcting the result of a
\* correction again under the same parent returns that very result and
\* changes nothing, and an element whose namespace needs no change is
\* returned itself with nothing created.
Parents == { p \in 1..Len(heap) : heap[p].type \in {"element", "fragment"} }

ElementsOf(h) == { c \in 1..Len(h) : IsElement(h, c) }

C9_CorrectionIdempotent ==
  \A p \in Parents, c \in ElementsOf(heap) :
    p # c =>
      LET once == fixNamespaceIfNeeded(World(heap), p, c)
          twice == fixNamespaceIfNeeded(once.w, p, once.node)
      IN /\ twice.node = once.node
         /\ twice.w.h = once.w.h
         /\ (namespaceURI(once.w.h, once.node) = namespaceURI(heap, c)
               => once.node = c /\ once.w.h = heap)

\* some element of the heap is replaced under some parent, and some is kept
C9_Witness ==
  /\ \E p \in Parents, c \in ElementsOf(heap) :
       p # c /\ fixNamespaceIfNeeded(World(heap), p, c).node # c
  /\ \E p \in Parents, c \in ElementsOf(heap) :
       p # c /\ fixNamespaceIfNeeded(World(heap), p, c).node = c

(***************************************************************************)
(* The factories as functions of their arguments: one call from a heap     *)
(* that holds two elements made earlier, over children values of every     *)
(* shape up to a size.                                                     *)
(***************************************************************************)
\* <option value="b"/> and <svg/>, made by the element factory
StockWorld ==
  With(createDomElement(World(<<>>), Str("option"),
                        Props(<<Entry("value", Str("b"))>>), <<>>),
       LAMBDA option :
         createDomElement(World(option.w.h), Str("svg"), NoProps, <<>>).w)

StockHeap == StockWorld.h

Leaves == { Null, False, Str(""), Str("a"), NodeVal(1), NodeVal(2) }

\* every kind of leaf, for the flat lists
AllLeaves == Leaves \cup {Undef, True}

\* the children values of exactly n nodes (leaves and arrays), and the lists
\* of values of n nodes in all
RECURSIVE ValuesOfSize(_)
RECURSIVE ListsOfSize(_)

ValuesOfSize(n) ==
  IF n = 1 THEN Leaves \cup {Arr(<<>>)}
  ELSE { Arr(items) : items \in ListsOfSize(n - 1) }

ListsOfSize(n) ==
  IF n = 0 THEN {<<>>}
  ELSE UNION { { <<v>> \o rest : v \in ValuesOfSize(k),
                                 rest \in ListsOfSize(n - k) } : k \in 1..n }

ChildLists == UNION { ListsOfSize(n) : n \in 0..MaxSize }

SmallLists == SeqsUpTo({Str(""), Str("a"), NodeVal(1)}, 2)

Args(tag, props, children) ==
  [tag |-> tag, props |-> props, children |-> children]

ElementArgs ==
  { Args(Str(t), p, c) :
      t \in {"div", "svg"}, p \in {NoProps, Props(<<>>)},
      c \in ChildLists \cup SeqsUpTo(AllLeaves, 2) }
  \cup
  { Args(Str(t), p, c) :
      t \in {"a_svg", "select", "foreignObject"},
      p \in {NoProps, Props(<<Entry("value", Str("b"))>>),
             Props(<<Entry("value", Str("z"))>>)},
      c \in SmallLists }

FragmentArgs ==
  { Args(Null, NoProps, c) : c \in ChildLists }
  \cup
  { Args(Null, Props(<<Entry("children", v)>>), c) :
      v \in UNION { ValuesOfSize(n) : n \in 1..(MaxSize - 1) },
      c \in {<<>>, <<Str("a")>>} }

InitArgs == heap = StockHeap /\ last = NoCall

CallElement ==
  /\ last.n = 0
  /\ \E x \in ElementArgs :
       Returned("element", x.tag, x.props, x.children,
                createDomElement(World(heap), x.tag, x.props, x.children))

CallFragment ==
  /\ last.n = 0
  /\ \E x \in FragmentArgs :
       Returned("fragment", x.tag, x.props, x.children,
                createDomFragment(World(heap), x.props, x.children))

NextArgs == CallElement \/ CallFragment

SpecArgs == InitArgs /\ [][NextArgs]_vars

\* what a node is, apart from the ids of the nodes the call made: old is the
\* id of a node that was there before the call, 0 for a new one
RECURSIVE Describe(_, _, _)
Describe(h, id, base) ==
  [old |-> IF id <= base THEN id ELSE 0,
   type |-> h[id].type, ns |-> h[id].ns, name |-> h[id].localName,
   data |-> h[id].data, attrs |-> h[id].attrs,
   kids |-> [i \in 1..Len(h[id].kids) |-> Describe(h, h[id].kids[i], base)]]

ChildNodes(h, id, base) == Describe(h, id, base).kids

\* a children value without its null, undefined, true and false, at any depth
RECURSIVE Strip(_)
RECURSIVE StripList(_)
StripList(items) ==
  IF items = <<>> THEN <<>>
  ELSE IF IsInvisible(Head(items)) THEN StripList(Tail(items))
  ELSE <<Strip(Head(items))>> \o StripList(Tail(items))

Strip(v) == IF v.k = "array" THEN Arr(StripList(v.items)) ELSE v

StripProps(props) ==
  IF props.isNull THEN props
  ELSE Props([i \in 1..Len(props.entries) |->
                Entry(props.entries[i].name, Strip(props.entries[i].val))])

\* the same call with the invisible values taken out of its children
StrippedCall ==
  IF last.op = "element"
    THEN createDomElement(World(last.pre), last.tag, last.props,
                          StripList(last.children))
    ELSE createDomFragment(World(last.pre), StripProps(last.props),
                           StripList(last.children))

\* C1 (as claimed): the child nodes a factory gives its result are those it
\* gives for the same children with every null, undefined, true and false
\* removed, at any depth.
C1_InvisibleChildren ==
  FactoryCall /\ last.result.k = "node" =>
    ChildNodes(heap, last.result.n, Len(last.pre)) =
      ChildNodes(StrippedCall.w.h, StrippedCall.node.n, Len(last.pre))

\* the leaves of a children value, depth first and left to right, without the
\* invisible ones
RECURSIVE LeavesOf(_)
LeavesOf(items) ==
  IF items = <<>> THEN <<>>
  ELSE LET v == Head(items)
       IN (CASE IsInvisible(v) -> <<>>
             [] v.k = "array" -> LeavesOf(v.items)
             [] OTHER -> <<v>>) \o LeavesOf(Tail(items))

\* the children the call hands to the appender
Appended ==
  IF last.op = "fragment" /\ ~last.props.isNull
       /\ Truthy(Get(last.props, "children"))
    THEN (IF Get(last.props, "children").k = "array"
            THEN Get(last.props, "children").items
            ELSE <<Get(last.props, "children")>>)
    ELSE last.children

ThroughAppender ==
  \/ last.op = "fragment"
  \/ last.op = "element" /\ PathOf(last.tag, last.props, last.children) = "general"

Distinct(seq) ==
  \A i, j \in 1..Len(seq) : i # j /\ seq[i].k = "node" => seq[i] # seq[j]

\* the node is what the leaf becomes: a new text node of the leaf's string, or
\* the leaf's element or the replacement the corrector made for it
Becomes(leaf, node) ==
  IF leaf.k = "node"
    THEN \/ node = leaf.n
         \/ \E i \in LogEvents("corrected") :
              last.log[i].a = leaf.n /\ last.log[i].b = node
    ELSE /\ node > Len(last.pre)
         /\ heap[node].type = "text"
         /\ heap[node].data = StringOf(leaf)

\* C2: when the appender appends the children of a call, flat or nested, the
\* child nodes of the result are, in order, what the leaves of the children
\* become, depth first and left to right.
C2_OrderPreserved ==
  ThroughAppender /\ Distinct(LeavesOf(Appended)) =>
    LET kids == heap[last.result.n].kids
        leaves == LeavesOf(Appended)
    IN /\ Len(kids) = Len(leaves)
       /\ \A i \in 1..Len(leaves) : i <= Len(kids) => Becomes(leaves[i], kids[i])

\* an array inside an array, with a replaced element before a string
C2_Witness ==
  /\ ThroughAppender /\ Distinct(LeavesOf(Appended))
  /\ \E i \in 1..Len(last.children) :
       /\ last.children[i].k = "array"
       /\ \E j \in 1..Len(last.children[i].items) :
            last.children[i].items[j].k = "array"
  /\ Len(LeavesOf(Appended)) >= 2
  /\ LeavesOf(Appended)[1].k = "node"
  /\ heap[last.result.n].kids[1] # LeavesOf(Appended)[1].n
  /\ LeavesOf(Appended)[2].k = "string"

\* the value a live property of a node reads back, Undef if never assigned
PropertyOf(h, id, name) == Get(Props(h[id].props), name)

\* C3: in the general path no prop of the new element is set before every
\* child argument has been appended, so a select given the value of one of
\* its option children reads that value back.
C3_ChildrenBeforeProps ==
  last.op = "element"
    /\ PathOf(last.tag, last.props, last.children) = "general" =>
    /\ \A i \in LogEvents("setProp") :
         last.log[i].a = last.result.n =>
           Cardinality({ j \in LogEvents("child") :
                           j < i /\ last.log[j].a = last.result.n })
             = Len(last.children)
    /\ \A k \in 1..Len(last.children) :
         ( /\ last.tag = Str("select")
           /\ Get(last.props, "value").k = "string"
           /\ last.children[k].k = "node"
           /\ IsHtml(last.pre, last.children[k].n, "option")
           /\ OptionValue(last.pre, last.children[k].n)
                = Get(last.props, "value").s )
         => PropertyOf(heap, last.result.n, "value") = Get(last.props, "value")

\* a select is made with the value of the option it is given as a child
C3_Witness ==
  /\ last.op = "element" /\ last.tag = Str("select")
  /\ last.children = <<NodeVal(1)>>
  /\ Get(last.props, "value") = Str("b")
  /\ PropertyOf(heap, last.result.n, "value") = Str("b")
  /\ \E i \in LogEvents("setProp"), j \in LogEvents("child") : j < i

\* C10 (as claimed): with null props and no child or one string child the
\* element has the namespace, the tag name and the child nodes the general
\* path gives for the same arguments.
C10_FastPathsAsGeneral ==
  last.op = "element"
    /\ PathOf(last.tag, last.props, last.children) \in {"text", "empty"} =>
    LET g == GeneralPath(World(last.pre), last.tag.s, last.props, last.children)
    IN /\ namespaceURI(heap, last.result.n) = namespaceURI(g.w.h, g.node.n)
       /\ tagName(heap, last.result.n) = tagName(g.w.h, g.node.n)
       /\ ChildNodes(heap, last.result.n, Len(last.pre))
            = ChildNodes(g.w.h, g.node.n, Len(last.pre))

(***************************************************************************)
(* The factories under props: one call with a props bag of up to MaxProps  *)
(* entries drawn from the kinds of prop the setter tells apart, one call   *)
(* of a component, and events dispatched on the element a call returned.   *)
(***************************************************************************)
MaxProps == 2

StyleValues ==
  { Obj(<<>>),
    Obj(<<Entry("width", Num(5))>>),
    Obj(<<Entry("width", Str("50%")), Entry("top", Num(0))>>),
    Obj(<<Entry("margin-top", Num(-1)), Entry("opacity", Frac("0.5"))>>),
    Str("color: red"), Null }

\* the values each prop name is given
ValuesFor(name) ==
  CASE name = "key" -> {Str("k"), Num(0)}
    [] name = "ref" -> {Fn("r"), Holder("h"), Null}
    [] name = "onClick" -> {Fn("f"), Fn("g"), Str("x")}
    [] name \in {"onclick", "onMouseOver"} -> {Fn("f")}
    [] name = "style" -> StyleValues
    [] name = "disabled" ->
         {True, False, Null, Undef, Str(""), Str("x"), Num(0)}
    [] name = "hidden" -> {True, False}
    [] name = "Disabled" -> {Str("x")}
    [] name = "value" -> {Str("b"), Num(0)}
    [] name = "muted" -> {True, False}
    [] name = "currentTime" -> {Num(3)}
    [] name = "textContent" -> {Str("t")}
    [] name = "innerHTML" -> {Str("t")}
    [] name = "id" -> {Str("x"), Num(0), Null, Undef}
    [] name = "viewBox" -> {Str("v"), Null}
    [] name = "constructor" -> {Str("x"), Null}
    [] OTHER -> {}

PropNames ==
  { "key", "ref", "onClick", "onclick", "onMouseOver", "style", "disabled",
    "hidden", "Disabled", "value", "muted", "currentTime", "textContent",
    "innerHTML", "id", "viewBox", "constructor" }

PropEntries ==
  UNION { { Entry(name, v) : v \in ValuesFor(name) } : name \in PropNames }

\* an object literal has each key once
PropsOfSize(n) ==
  { Props(es) : es \in { f \in [1..n -> PropEntries] :
                           \A i, j \in 1..n : i # j => f[i].name # f[j].name } }

PropsArgs == UNION { PropsOfSize(n) : n \in 0..MaxProps }

NumberLists ==
  SeqsUpTo({Str(""), Str("a"), Num(0), Num(-1), Frac("1.5"), NodeVal(1)}, 2)

ElementPropsArgs ==
  { Args(Str(t), p, c) :
      t \in {"div", "svg", "select"}, p \in PropsArgs,
      c \in {<<>>, <<Str("a")>>, <<NodeVal(1), Str("a")>>} }
  \cup
  { Args(Str(t), p, c) :
      t \in {"div", "svg"},
      p \in {NoProps, Props(<<>>), Props(<<Entry("id", Str("x"))>>)},
      c \in NumberLists }

ComponentArgs ==
  { Args(Fn(t), p, c) :
      t \in {"Children", "Title", "Nothing"},
      p \in { NoProps, Props(<<>>),
              Props(<<Entry("title", Str("x"))>>),
              Props(<<Entry("children", Str("mine"))>>),
              Props(<<Entry("children", Arr(<<NodeVal(1)>>)),
                      Entry("title", Str("x")), Entry("ref", Fn("r"))>>),
              Props(<<Entry("id", Str("x")), Entry("children", Null),
                      Entry("onClick", Fn("f"))>>) },
      c \in SeqsUpTo({Str("a"), Null, NodeVal(1), Arr(<<Str("a")>>)}, 2) }

EventTypes == {"click", "mouseover", "Click"}

InitProps == heap = StockHeap /\ last = NoCall

CallWithProps ==
  /\ last.n = 0
  /\ \E x \in ElementPropsArgs :
       Returned("element", x.tag, x.props, x.children,
                createDomElement(World(heap), x.tag, x.props, x.children))

CallComponent ==
  /\ last.n = 0
  /\ \E x \in ComponentArgs :
       Returned("component", x.tag, x.props, x.children,
                createDomElement(World(heap), x.tag, x.props, x.children))

\* the listeners of a type, called in the order of their registration
RECURSIVE CallListeners(_, _, _, _)
CallListeners(w, el, type, i) ==
  IF i > Len(w.h[el].listeners) THEN w
  ELSE LET l == w.h[el].listeners[i]
       IN CallListeners(
            IF l.type = type THEN Logged(w, Ev("handler", el, 0, l.fn, <<>>))
            ELSE w,
            el, type, i + 1)

\* element.dispatchEvent(new Event(type))
dispatchEvent(w, el, type) == Ret(CallListeners(w, el, type, 1), NodeVal(el))

\* the program dispatches an event on the element the call returned
DispatchEvent ==
  /\ last.op = "element" /\ last.n = 1
  /\ \E type \in EventTypes :
       LET r == dispatchEvent(World(heap), last.result.n, type)
       IN /\ heap' = r.w.h
          /\ last' = [Call("dispatch", Str(type), last.props, <<>>, r)
                        EXCEPT !.pre = last.pre]

NextProps == CallWithProps \/ CallComponent \/ DispatchEvent

SpecProps == InitProps /\ [][NextProps]_vars

\* a call of the element factory with a tag name that went down the general
\* path
GeneralCall ==
  last.op = "element"
    /\ PathOf(last.tag, last.props, last.children) = "general"

\* the entries of the props bag of the latest call
Entries == last.props.entries

\* the attribute of a node under a name, Undef if it has none
AttributeOf(h, id, name) ==
  IF AttrIndex(h[id].attrs, name) = 0 THEN Undef
  ELSE Str(h[id].attrs[AttrIndex(h[id].attrs, name)].value)

Count(S) == Cardinality(S)

\* the log entries of a kind that lie between the i-th setProp of the call
\* and the next one: what that setProp did
DoneBySetProp(i, e) ==
  LET starts == LogEvents("setProp")
      mine == CHOOSE k \in starts : Count({ j \in starts : j <= k }) = i
      later == { j \in starts : j > mine }
  IN { k \in LogEvents(e) : k > mine /\ \A j \in later : k < j }

NamesOf(entries) == { entries[i].name : i \in 1..Len(entries) }

\* C11: a call with a callable tag invokes it exactly once, with a mapping
\* that holds every entry of props (none if props is null) and, under
\* children, the array of the variadic children in place of any children key
\* of props; the call returns what the component returned, creates no node,
\* sets no prop and resolves no ref.
C11_ComponentInvocation ==
  last.op = "component" =>
    /\ Count(LogEvents("component")) = 1
    /\ Len(last.log) = 1
    /\ \A i \in LogEvents("component") :
         LET merged == last.log[i].h
         IN /\ last.log[i].s = last.tag.s
            /\ NamesOf(merged) = NamesOf(Entries) \cup {"children"}
            /\ Len(merged) = Count(NamesOf(merged))
            /\ \A k \in 1..Len(Entries) :
                 Entries[k].name # "children" =>
                   Get(Props(merged), Entries[k].name) = Entries[k].val
            /\ Get(Props(merged), "children") = Arr(last.children)
    /\ (last.tag.s = "Children" => last.result = Arr(last.children))
    /\ (last.tag.s = "Title" => last.result = Get(last.props, "title"))
    /\ heap = last.pre
    /\ last.cur = World(last.pre).cur

\* a component is called with children of its own although the props carry a
\* children key, other entries and a ref
C11_Witness ==
  /\ last.op = "component" /\ last.tag.s = "Children"
  /\ HasKey(last.props, "children") /\ HasKey(last.props, "title")
  /\ HasKey(last.props, "ref")
  /\ Len(last.children) = 2
  /\ last.result = Arr(last.children)
  /\ last.result # Get(last.props, "children")

\* the children the fragment factory is to use: props.children whenever
\* props carries the field, else the variadic arguments
FragmentSource ==
  IF ~last.props.isNull /\ HasKey(last.props, "children")
    THEN (IF Get(last.props, "children").k = "array"
            THEN Get(last.props, "children").items
            ELSE <<Get(last.props, "children")>>)
    ELSE last.children

\* C12 (as claimed): the fragment factory takes its children from
\* props.children whenever props is non-null and has the field, whatever its
\* value, and from the variadic arguments otherwise; a value that is no array
\* counts as an array of one, and the child nodes of the fragment are what
\* the entries become, in order.
C12_FragmentChildrenSource ==
  last.op = "fragment" /\ Distinct(LeavesOf(FragmentSource)) =>
    LET kids == heap[last.result.n].kids
        leaves == LeavesOf(FragmentSource)
    IN /\ Len(kids) = Len(leaves)
       /\ \A i \in 1..Len(leaves) : i <= Len(kids) => Becomes(leaves[i], kids[i])

\* the entry of the props bag that is set last
LastEntry == Entries[Len(Entries)]

\* C13: for a name of the boolean-attribute set, on an HTML or an SVG
\* element, once the prop setter has run the attribute is absent if the
\* value is false, null or undefined and present with the empty string as
\* its value otherwise, whether or not an earlier prop left the attribute on
\* the element.
C13_BooleanAttributes ==
  GeneralCall /\ Entries # <<>> /\ LastEntry.name \in {"disabled", "hidden"} =>
    AttributeOf(heap, last.result.n, LastEntry.name) =
      (IF LastEntry.val \in {False, Null, Undef} THEN Undef ELSE Str(""))

\* disabled={false} takes away a disabled attribute that an earlier prop had
\* put on the element
C13_Witness ==
  /\ GeneralCall /\ Len(Entries) = 2
  /\ Entries[2] = Entry("disabled", False)
  /\ \E i \in DoneBySetProp(1, "setAttribute") : last.log[i].s = "disabled"
  /\ \E i \in DoneBySetProp(2, "removeAttribute") : last.log[i].s = "disabled"
  /\ AttributeOf(heap, last.result.n, "disabled") = Undef

\* one declaration: key, colon, space, value, the value with px if a number
Declaration(e) ==
  e.name \o ": " \o (IF e.val.k = "number" THEN StringOf(e.val) \o "px"
                     ELSE e.val.s)

\* the first n declarations joined by semicolon and space
RECURSIVE Declarations(_, _)
Declarations(entries, n) ==
  CASE n = 0 -> ""
    [] n = 1 -> Declaration(entries[1])
    [] OTHER -> Declarations(entries, n - 1) \o "; " \o Declaration(entries[n])

EventProps ==
  { k \in 1..Len(Entries) :
      /\ Entries[k].name \in {"onClick", "onclick", "onMouseOver"}
      /\ Entries[k].val.k = "function" }

\* the event type an event prop is for
TypeFor(name) == IF name = "onMouseOver" THEN "mouseover" ELSE "click"

\* C15: each prop whose name starts with on and whose value is callable
\* makes the prop setter register exactly one listener, for the lower-cased
\* name without its first two characters, and set no attribute; the event
\* props of one element register independently, so that one dispatch of a type
\* calls each handler registered for that type exactly once and no other
\* handler.
C15_EventListeners ==
  /\ GeneralCall =>
       \A k \in EventProps :
         /\ Count(DoneBySetProp(k, "addEventListener")) = 1
         /\ \A i \in DoneBySetProp(k, "addEventListener") :
              last.log[i].a = last.result.n
                /\ last.log[i].s = TypeFor(Entries[k].name)
         /\ DoneBySetProp(k, "setAttribute") = {}
         /\ \E i \in 1..Len(heap[last.result.n].listeners) :
              heap[last.result.n].listeners[i] =
                [type |-> TypeFor(Entries[k].name), fn |-> Entries[k].val.s]
  /\ last.op = "dispatch" =>
       \A fn \in {"f", "g", "r"} :
         Count({ i \in LogEvents("handler") : last.log[i].s = fn }) =
           (IF \E k \in EventProps :
                 Entries[k].val.s = fn /\ TypeFor(Entries[k].name) = last.tag.s
              THEN 1 ELSE 0)

\* an element made with onClick and onMouseOver gets a mouseover event: one
\* handler call
C15_Witness ==
  /\ last.op = "dispatch" /\ last.tag = Str("mouseover")
  /\ Entries = <<Entry("onClick", Fn("g")), Entry("onMouseOver", Fn("f"))>>
  /\ Len(heap[last.result.n].listeners) = 2
  /\ Len(last.log) = 1 /\ last.log[1].e = "handler" /\ last.log[1].s = "f"

\* the props of the latest call whose name is one of the eleven DOM-property
\* names
PropertyProps ==
  { k \in 1..Len(Entries) :
      Entries[k].name \in
        { "value", "checked", "selected", "indeterminate", "muted", "volume",
          "currentTime", "playbackRate", "innerHTML", "textContent",
          "innerText" } }

\* C16: for a name of the DOM-property set the prop setter assigns the value
\* to the element's property of that name, once, and calls neither
\* setAttribute nor removeAttribute; a property without a setter of its own
\* reads the value back.
C16_DomProperties ==
  GeneralCall =>
    \A k \in PropertyProps :
      /\ Count(DoneBySetProp(k, "property")) = 1
      /\ \A i \in DoneBySetProp(k, "property") :
           /\ last.log[i].a = last.result.n
           /\ last.log[i].s = Entries[k].name
           /\ last.log[i].h = Entries[k].val
      /\ DoneBySetProp(k, "setAttribute") = {}
      /\ DoneBySetProp(k, "removeAttribute") = {}
      /\ (Entries[k].name \in {"muted", "currentTime"} =>
            /\ PropertyOf(heap, last.result.n, Entries[k].name) = Entries[k].val
            /\ AttributeOf(heap, last.result.n, Entries[k].name) = Undef)

\* muted={false} and value=0: falsy values assigned as properties, no attribute
C16_Witness ==
  /\ GeneralCall
  /\ Entries = <<Entry("muted", False), Entry("value", Num(0))>>
  /\ PropertyOf(heap, last.result.n, "muted") = False
  /\ PropertyOf(heap, last.result.n, "value") = Num(0)
  /\ heap[last.result.n].attrs = <<>>

\* what a setProp of the call can do to the element
Effects == {"setAttribute", "removeAttribute", "property", "addEventListener"}

HasRef == GeneralCall /\ Get(last.props, "ref").k \in {"function", "object"}

\* C18: a call whose props carry a ref resolves it exactly once, as the last
\* thing it does: after every child has been appended and every prop set.  A
\* callable ref is called with the created element; a holder has the created
\* element as its current afterwards.
C18_RefResolvedLast ==
  HasRef =>
    /\ Count(LogEvents("ref")) = 1
    /\ Count(LogEvents("child")) = Len(last.children)
    /\ Count(LogEvents("setProp")) = Len(Entries)
    /\ LET ev == last.log[Len(last.log)]
       IN /\ ev.e = "ref"
          /\ ev.a = last.result.n
          /\ ev.h = Get(last.props, "ref")
    /\ (Get(last.props, "ref") = Holder("h") => last.cur["h"] = last.result.n)
    /\ (Get(last.props, "ref").k = "function" => last.cur = World(last.pre).cur)

\* a holder given as the first prop of an element with two children and
\* another prop
C18_Witness ==
  /\ HasRef /\ Len(Entries) = 2
  /\ Entries[1] = Entry("ref", Holder("h"))
  /\ Entries[2].name = "id" /\ Entries[2].val = Str("x")
  /\ Len(last.children) = 2
  /\ Len(heap[last.result.n].kids) = 2
  /\ AttributeOf(heap, last.result.n, "id") = Str("x")
  /\ last.cur["h"] = last.result.n

\* the standard string form of the strings and numbers the model passes
TextOf(v) ==
  CASE v = Num(0) -> "0"
    [] v = Num(-1) -> "-1"
    [] v = Frac("1.5") -> "1.5"
    [] OTHER -> v.s

Texts == {Str(""), Str("a"), Num(0), Num(-1), Frac("1.5")}

\* the DOM properties whose assignment replaces the children of the element
ReplacesChildren == {"textContent", "innerHTML", "innerText"}

\* the call hands its children to the appender and no prop replaces the
\* child nodes afterwards
KeepsAppended ==
  /\ GeneralCall /\ Distinct(last.children)
  /\ \A k \in 1..Len(Entries) : Entries[k].name \notin ReplacesChildren

PlainNullishProps ==
  { k \in 1..Len(Entries) :
      /\ Entries[k].val \in {Null, Undef}
      /\ Entries[k].name \in {"id", "viewBox", "style", "constructor"} }

\* C20 (as claimed): for a prop name outside every special set a null or
\* undefined value makes the prop setter do nothing: no attribute is set and
\* the element is as it was, so an element made with nothing but such a prop
\* is a bare element.
C20_NullishSetsNothing ==
  GeneralCall =>
    /\ \A k \in PlainNullishProps :
         \A e \in Effects : DoneBySetProp(k, e) = {}
    /\ (Len(Entries) = 1 /\ PlainNullishProps = {1} /\ last.children = <<>> =>
          /\ heap[last.result.n].attrs = <<>>
          /\ heap[last.result.n].props = <<>>
          /\ heap[last.result.n].listeners = <<>>)

(***************************************************************************)
(* The factory over tag names: one call for every spelling of every SVG    *)
(* tag name and for some names that are no SVG tags.                       *)
(***************************************************************************)
\* the rows of the name table that are SVG tag names
SvgRows == { r \in NameTable : r[2] \in SVG_TAGS }

SvgSpellings == UNION { {r[1], r[2], r[3]} : r \in SvgRows }

OtherNames ==
  { "div", "DIV", "a", "A", "option", "OPTION", "select", "script", "SCRIPT" }

TagArgs ==
  { Args(Str(t), p, c) :
      t \in SvgSpellings \cup OtherNames,
      p \in {NoProps, Props(<<>>), Props(<<Entry("id", Str("x"))>>)},
      c \in {<<>>, <<Str("a")>>, <<Str("a"), NodeVal(1)>>} }

InitTags == heap = StockHeap /\ last = NoCall

CallTag ==
  /\ last.n = 0
  /\ \E x \in TagArgs :
       Returned("element", x.tag, x.props, x.children,
                createDomElement(World(heap), x.tag, x.props, x.children))

NextTags == CallTag

SpecTags == InitTags /\ [][NextTags]_vars

\* C21: the namespace resolver is case-insensitive over its whole table:
\* each of the 69 SVG tag names, in the casing SVG gives it, in lower case
\* and in upper case, resolves to the SVG namespace, so that the general path
\* creates the element there; a name whose lower-case form is not in the
\* table resolves to no namespace, and the element is an HTML element.
C21_ResolverCaseInsensitive ==
  /\ Cardinality(SVG_TAGS) = 69
  /\ { r[2] : r \in SvgRows } = SVG_TAGS
  /\ \A r \in SvgRows : isSvgTag(r[1]) /\ isSvgTag(r[2]) /\ isSvgTag(r[3])
  /\ \A name \in OtherNames : ~isSvgTag(name)
  /\ GeneralCall =>
       namespaceURI(heap, last.result.n) =
         (IF last.tag.s \in SvgSpellings THEN SVG_NS ELSE HTML_NS)

\* feGaussianBlur, written as SVG writes it, has been made by the general path
C21_Witness ==
  /\ GeneralCall /\ last.tag = Str("feGaussianBlur")
  /\ namespaceURI(heap, last.result.n) = SVG_NS
  /\ heap[last.result.n].localName = "feGaussianBlur"

\* the names of the SVG set that carry a suffix, each with its real tag name
SuffixedNames ==
  { <<"a_svg", "a">>, <<"script_svg", "script">>, <<"style_svg", "style">>,
    <<"audio_svg", "audio">>, <<"video_svg", "video">>,
    <<"canvas_svg", "canvas">>, <<"iframe_svg", "iframe">>,
    <<"image_svg", "image">> }

\* C22 (as claimed): for each suffixed name of the SVG set the element the
\* factory creates is in the SVG namespace and has the real tag name, without
\* separator and suffix, whatever the props and children.
C22_SuffixStripped ==
  \A pair \in SuffixedNames :
    last.op = "element" /\ last.tag = Str(pair[1]) =>
      /\ namespaceURI(heap, last.result.n) = SVG_NS
      /\ heap[last.result.n].localName = pair[2]

\* the appends of the latest call that put an element under an element whose
\* tag is not foreignObject
ElementAppends ==
  { i \in LogEvents("appendChild") :
      /\ IsElement(heap, last.log[i].a) /\ IsElement(heap, last.log[i].b)
      /\ tagName(heap, last.log[i].a) # "foreignObject" }

\* C23: an element that is appended to a parent whose tag is not
\* foreignObject is in the SVG namespace if the parent is, whatever its own
\* tag; under a parent in the HTML namespace it is in the SVG namespace if
\* its tag is in the SVG tag set and in the HTML namespace otherwise.
C23_ChildNamespaceByParent ==
  \A i \in ElementAppends :
    LET parent == last.log[i].a
        child == last.log[i].b
    IN /\ namespaceURI(heap, parent) = SVG_NS =>
            namespaceURI(heap, child) = SVG_NS
       /\ namespaceURI(heap, parent) = HTML_NS =>
            namespaceURI(heap, child) =
              (IF ToLowerCase(tagName(heap, child)) \in SVG_TAGS
                 THEN SVG_NS ELSE HTML_NS)

\* a div made as an HTML element has been replaced on its way under an SVG
\* parent
C23_Witness ==
  \E i \in ElementAppends, j \in LogEvents("corrected") :
    /\ namespaceURI(heap, last.log[i].a) = SVG_NS
    /\ last.log[i].b = last.log[j].b
    /\ ToLowerCase(tagName(heap, last.log[i].b)) = "div"
    /\ namespaceURI(heap, last.log[j].a) = HTML_NS
    /\ namespaceURI(heap, last.log[i].b) = SVG_NS

RECURSIVE Ancestors(_, _)
Ancestors(h, id) ==
  IF h[id].parent = 0 THEN {}
  ELSE {h[id].parent} \cup Ancestors(h, h[id].parent)

\* what a node is by itself, apart from where it hangs and what hangs on it
Self(node) == [node EXCEPT !.kids = <<>>, !.parent = 0]

\* a node the parent can take and that the appender is to pass on as it is:
\* any node that is no element, or any node if the parent is a fragment
PassedAsIs(p, c) ==
  /\ c # p /\ c \notin Ancestors(heap, p)
  /\ heap[c].type # "element" \/ heap[p].type = "fragment"

\* C24: given a node that is no element (a text node, a fragment made
\* earlier), or given any node for a parent without a namespace (a
\* fragment), the appender appends that very node: it creates no node, it
\* replaces nothing, and the node and all it contains are as they were.
C24_AppendedAsIs ==
  /\ \A p \in Parents, c \in 1..Len(heap) :
       PassedAsIs(p, c) =>
         LET w == appendDomChild(World(heap), p, NodeVal(c))
             moved == IF heap[c].type = "fragment" THEN heap[c].kids ELSE <<c>>
             inside == UNION { {moved[i]} \cup Descendants(heap, moved[i]) :
                                 i \in 1..Len(moved) }
         IN /\ Len(w.h) = Len(heap)
            /\ \A i \in 1..Len(w.log) : w.log[i].e = "appendChild"
            /\ w.h[p].kids =
                 SelectSeq(heap[p].kids, LAMBDA k : k \notin inside) \o moved
            /\ \A n \in 1..Len(heap) : Self(w.h[n]) = Self(heap[n])
            /\ \A n \in inside : w.h[n].kids = heap[n].kids
  /\ last.op = "fragment" => LogEvents("corrected") = {}

\* a fragment that was given an SVG element holds that very element, and the
\* heap has a text node that can be appended elsewhere
C24_Witness ==
  /\ last.op = "fragment"
  /\ \E i \in 1..Len(last.children) :
       /\ last.children[i].k = "node"
       /\ IsElement(heap, last.children[i].n)
       /\ namespaceURI(heap, last.children[i].n) = SVG_NS
       /\ heap[last.children[i].n].parent = last.result.n
  /\ \E p \in Parents, c \in 1..Len(heap) :
       PassedAsIs(p, c) /\ heap[c].type = "text" /\ heap[c].parent # p

\* C25 (as claimed): when the corrector builds a replacement the original is
\* not mutated: after the call it has the attributes and the child nodes it
\* had before, in the same order.
C25_OriginalNotMutated ==
  \A i \in LogEvents("corrected") :
    LET ev == last.log[i]
    IN /\ ev.h[2][ev.a].attrs = ev.h[1][ev.a].attrs
       /\ ev.h[2][ev.a].kids = ev.h[1][ev.a].kids

(***************************************************************************)
(* A nested JSX expression: an element made with props of its own is the   *)
(* child of a second call of the factory.  The inner call runs first; the  *)
(* log and the ref holders are those of the whole expression.              *)
(***************************************************************************)
InnerProps ==
  { NoProps, Props(<<>>),
    Props(<<Entry("onClick", Fn("f"))>>),
    Props(<<Entry("value", Str("b"))>>),
    Props(<<Entry("muted", True)>>),
    Props(<<Entry("id", Str("x"))>>),
    Props(<<Entry("ref", Holder("h"))>>),
    Props(<<Entry("ref", Fn("r"))>>),
    Props(<<Entry("ref", Holder("h")), Entry("onClick", Fn("f"))>>),
    Props(<<Entry("id", Str("x")), Entry("value", Str("b"))>>) }

InnerArgs ==
  { Args(Str(t), p, c) :
      t \in {"div", "circle", "svg"}, p \in InnerProps,
      c \in {<<>>, <<Str("a")>>, <<NodeVal(2)>>} }

OuterArgs ==
  { Args(Str(t), p, c) :
      t \in {"svg", "div", "foreignObject"},
      p \in {NoProps, Props(<<>>), Props(<<Entry("id", Str("x"))>>)},
      c \in {<<>>, <<Str("a")>>} }

InitNest == heap = StockHeap /\ last = NoCall

\* the outer call has returned: last is that call, with the arguments of
\* the inner one
NestedReturned(x, y, children, outer) ==
  /\ heap' = outer.w.h
  /\ last' = Call("nested", y.tag, y.props, children, outer) @@ [inner |-> x]

\* the outer call, with the element of the inner one as its first child
OuterCall(x, y, inner) ==
  NestedReturned(x, y, <<inner.node>> \o y.children,
                 createDomElement(inner.w, y.tag, y.props,
                                  <<inner.node>> \o y.children))

\* <outer ...><inner ...>...</inner>...</outer>
NestedCall ==
  /\ last.n = 0
  /\ \E x \in InnerArgs, y \in OuterArgs :
       OuterCall(x, y,
                 createDomElement(World(heap), x.tag, x.props, x.children))

NextNest == NestedCall

SpecNest == InitNest /\ [][NextNest]_vars

Nested == last.op = "nested"

\* the element the inner call returned, and the element that stands for it
\* under the outer element
InnerElement == last.children[1].n

InnerInTree == heap[last.result.n].kids[1]

\* the inner element was replaced on its way into the outer one
InnerReplaced == Nested /\ InnerInTree # InnerElement

\* C26 (as claimed): a replacement made by the corrector has all state of
\* the original: besides attributes and descendants, every listener an on*
\* prop registered on the original and every value a DOM-property prop
\* assigned to it.
C26_StateCopied ==
  InnerReplaced =>
    /\ heap[InnerInTree].listeners = heap[InnerElement].listeners
    /\ heap[InnerInTree].props = heap[InnerElement].props

\* C27 (as claimed): a replacement has the lower-cased tag name of the
\* original when its namespace is HTML and the tag name of the original in
\* its own case when its namespace is SVG, so that a circle made in the HTML
\* namespace ends up under an svg parent as an SVG element named circle.
C27_ReplacementTagName ==
  \A i \in LogEvents("corrected") :
    LET original == last.log[i].h[1][last.log[i].a]
        replacement == last.log[i].h[2][last.log[i].b]
    IN replacement.localName =
         (IF replacement.ns = HTML_NS THEN ToLowerCase(original.localName)
          ELSE original.localName)

\* the node the ref of the inner call received: the holder's current, or the
\* argument of the callback
RefReceived ==
  IF Get(last.inner.props, "ref").k = "function"
    THEN { last.log[i].a : i \in { j \in LogEvents("ref") :
                                     last.log[j].h = Get(last.inner.props, "ref") } }
    ELSE { last.cur[Get(last.inner.props, "ref").s] }

\* C29 (as claimed): when an element made with a ref is passed as a child to
\* another call of the factory, the node the ref received is the node that
\* is in the parent's subtree after that call, never one that was discarded
\* for a replacement.
C29_RefInTree ==
  Nested /\ Truthy(Get(last.inner.props, "ref")) =>
    RefReceived \subseteq Descendants(heap, last.result.n)

\* the rule the classification gives a prop, in the order it is stated: key
\* and ref, an on-prefixed name with a callable value, style with a mapping
\* value, the boolean-attribute set, the eleven DOM-property names, and the
\* generic attribute for what is left with a non-nullish value
RuleOf(name, value) ==
  CASE name \in {"key", "ref"} -> "reserved"
    [] OTHER ->
       IF StartsWithOn(name) /\ value.k = "function" THEN "event"
       ELSE IF name = "style" /\ value.k \in {"object", "array"} THEN "style"
       ELSE IF name \in BOOLEAN_ATTRS THEN "boolean"
       ELSE IF name \in PROPERTY_NAMES THEN "property"
       ELSE IF value.k \notin {"null", "undefined"} THEN "attribute"
       ELSE "none"

\* the kinds of effect a rule has on the element
EffectsOf(rule) ==
  CASE rule = "event" -> {"addEventListener"}
    [] rule = "style" -> {"setAttribute"}
    [] rule = "boolean" -> {"setAttribute", "removeAttribute"}
    [] rule = "property" -> {"property"}
    [] rule = "attribute" -> {"setAttribute"}
    [] OTHER -> {}

\* element.getAttribute(name): an HTML element looks the name up in lower
\* case
getAttribute(h, id, name) ==
  AttributeOf(h, id, IF h[id].ns = HTML_NS THEN ToLowerCase(name) ELSE name)

\* the entries of the bag the generic rule is for
GenericProps ==
  { i \in 1..Len(Entries) :
      RuleOf(Entries[i].name, Entries[i].val) = "attribute" }

\* no other entry of the bag has the name of the i-th one in another case
OwnAttribute(i) ==
  \A j \in 1..Len(Entries) :
    j # i => ToLowerCase(Entries[j].name) # ToLowerCase(Entries[i].name)

\* C28 (as claimed): a prop that is neither key nor ref, nor an on-prefixed
\* name with a callable value, nor style with a mapping value, nor in the
\* boolean-attribute set, nor one of the eleven DOM-property names, and has a
\* non-nullish value, is set as the attribute of that name with the string
\* conversion of the value; and every prop has the effect of exactly one
\* rule, the first that matches it.
C28_GenericAttribute ==
  GeneralCall /\ last.props # NoProps =>
    /\ \A i \in GenericProps :
         /\ Count(DoneBySetProp(i, "setAttribute")) = 1
         /\ OwnAttribute(i) =>
              getAttribute(heap, last.result.n, Entries[i].name)
                = Str(StringOf(Entries[i].val))
    /\ \A i \in 1..Len(Entries) :
         LET rule == RuleOf(Entries[i].name, Entries[i].val)
         IN /\ \A e \in Effects \ EffectsOf(rule) : DoneBySetProp(i, e) = {}
            /\ Count(UNION { DoneBySetProp(i, e) : e \in EffectsOf(rule) })
                 = (IF EffectsOf(rule) = {} THEN 0 ELSE 1)

\* the log entries that appended a node to the returned element for the last
\* time
AppendedForChildren ==
  { i \in LogEvents("appendChild") :
      /\ last.log[i].a = last.result.n
      /\ \A j \in LogEvents("appendChild") :
           j > i /\ last.log[j].a = last.result.n
             => last.log[j].b # last.log[i].b }

\* the place of a node among the children of the returned element, 0 if it
\* is none of them
PlaceOf(id) ==
  LET kids == heap[last.result.n].kids
  IN IF \E k \in 1..Len(kids) : kids[k] = id
       THEN CHOOSE k \in 1..Len(kids) : kids[k] = id
       ELSE 0

\* every node appended for the children is a child of the returned element,
\* in the order of appending
ChildrenKept ==
  /\ \A i \in AppendedForChildren : PlaceOf(last.log[i].b) # 0
  /\ \A i, j \in AppendedForChildren :
       i < j => PlaceOf(last.log[i].b) < PlaceOf(last.log[j].b)

\* C30 (as claimed): on return from the general path every node that was
\* appended for the children arguments is a child of the returned element,
\* in the order of appending; applying the props removes or replaces none.
C30_ChildrenSurviveProps == GeneralCall => ChildrenKept

\* C30 (amended): on return from the general path every node that was
\* appended for the children arguments is a child of the returned element,
\* in the order of appending, unless the props hold textContent, innerHTML
\* or innerText: the assignment to one of these properties replaces the
\* children.
C30_ChildrenSurviveOtherProps ==
  GeneralCall /\ NamesOf(Entries) \cap ReplacesChildren = {} => ChildrenKept

\* an element and a text child under a select that is given a value and an id
C30_Witness ==
  /\ GeneralCall
  /\ last.tag = Str("select")
  /\ Entries = <<Entry("value", Str("b")), Entry("id", Str("x"))>>
  /\ last.children = <<NodeVal(1), Str("a")>>
  /\ Len(heap[last.result.n].kids) = 2
  /\ heap[last.result.n].kids[1] = 1
  /\ heap[heap[last.result.n].kids[2]].data = "a"
  /\ ChildrenKept

====
